---------------------------- MODULE Spec2Model ----------------------------
(***************************************************************************)
(* Model of solver_iq-3 (pydmft): the Hartree DMFT fixed-point loop main() *)
(* with Model, ImpuritySolver.solve, SelfConsistency.run_selfconsistency,  *)
(* the dispersion eps_k and the first-moment helper get_hyb_fm.            *)
(*                                                                         *)
(* Arithmetic.  The program computes with Python floats and numpy          *)
(* complex128.  The model computes exactly, in the finite field F_P of     *)
(* the integers modulo a prime P = 3 (mod 4) for the floats and in its     *)
(* extension F_P(i) for the complex numbers (-1 is no square modulo such a *)
(* P, so a + bi is zero only when a = b = 0, as over the reals).  A float  *)
(* x is the residue x % P, a complex number is the pair <<re, im>>.  What  *)
(* numpy yields for a division by complex zero (inf/nan components, no     *)
(* exception) is the one absorbing non-finite value: the residue P for a   *)
(* float, <<P, P>> for a complex number.  Rounding is not modelled: the    *)
(* model states what the formulas of the code compute in exact arithmetic. *)
(*                                                                         *)
(* Arrays are heap objects: a variable holds the address of an array and   *)
(* heap[a] is its content, so that aliasing and in-place writes are        *)
(* visible.  Index n of the program is position n + 1 of the sequence.     *)
(***************************************************************************)
EXTENDS Integers, Sequences, FiniteSets, TLC

\* ---------------------------------------------------------------- bounds
\* FieldK fixes the field: P = 4 * FieldK + 3 is 19 for FieldK = 4 and 23 for
\* FieldK = 5, both primes of the form 4k + 3.
FieldK == 4
MaxN == 2
MaxIter == 2
MaxRuns == 2
MaxC == 2
MaxK == 5

\* ------------------------------------------------------- field arithmetic
P == 4 * FieldK + 3

RNaN == P
CNaN == <<P, P>>

R(x) == x % P

IsRNaN(x) == x = RNaN
IsNaN(z) == z[1] = P \/ z[2] = P
IsFinite(z) == ~IsNaN(z)

RAdd(x, y) == IF IsRNaN(x) \/ IsRNaN(y) THEN RNaN ELSE (x + y) % P
RSub(x, y) == IF IsRNaN(x) \/ IsRNaN(y) THEN RNaN ELSE (x - y) % P
RMul(x, y) == IF IsRNaN(x) \/ IsRNaN(y) THEN RNaN ELSE (x * y) % P
RRecip(x) == CHOOSE y \in 1..(P - 1) : (x * y) % P = 1
\* float / float of numpy: division by zero gives a non-finite value.
RDiv(x, y) ==
    IF IsRNaN(x) \/ IsRNaN(y) \/ y = 0 THEN RNaN ELSE (x * RRecip(y)) % P

C(re, im) == IF IsRNaN(re) \/ IsRNaN(im) THEN CNaN ELSE <<re, im>>
Re(z) == IF IsNaN(z) THEN RNaN ELSE z[1]
Im(z) == IF IsNaN(z) THEN RNaN ELSE z[2]
CZero == <<0, 0>>
COne == <<1, 0>>
J == <<0, 1>>
Cx(x) == C(x, 0)

CAdd(z, w) == IF IsNaN(z) \/ IsNaN(w) THEN CNaN
              ELSE <<(z[1] + w[1]) % P, (z[2] + w[2]) % P>>
CSub(z, w) == IF IsNaN(z) \/ IsNaN(w) THEN CNaN
              ELSE <<(z[1] - w[1]) % P, (z[2] - w[2]) % P>>
CMul(z, w) == IF IsNaN(z) \/ IsNaN(w) THEN CNaN
              ELSE <<(z[1] * w[1] - z[2] * w[2]) % P,
                     (z[1] * w[2] + z[2] * w[1]) % P>>
CNorm(z) == (z[1] * z[1] + z[2] * z[2]) % P
\* 1.0 / z for a numpy complex z: conj(z) / |z|^2, non-finite when z = 0.
CRecip(z) == IF IsNaN(z) \/ z = CZero THEN CNaN
             ELSE LET d == RRecip(CNorm(z))
                  IN  <<(z[1] * d) % P, ((P - z[2]) * d) % P>>
CDiv(z, w) == CMul(z, CRecip(w))


\* ------------------------------------------------------ numpy and scipy
\* np.pi, as an element of F_P.
Pi == 3

\* Momenta are given in units of pi/2, so that np.cos is exact: cos of
\* k * pi/2 is 1, 0, -1, 0 for k = 0, 1, 2, 3 (mod 4).
Cos(k) == CASE k % 4 = 0 -> R(1)
            [] k % 4 = 2 -> R(-1)
            [] OTHER     -> R(0)

\* The momenta the quadrature may visit, in units of pi/2.
KGrid == (-2)..2

\* scipy.integrate.dblquad(func, a, b, gfun, hfun)[0]: the integral of
\* func(y, x) for x in [a, b] and y in [gfun(x), hfun(x)].  The callables
\* are functions on the grid (func on pairs <<y, x>>).  The library routine
\* is stood in for by the rectangle rule with step pi/2 (one unit), exact
\* for the trigonometric polynomials of degree 1 in each momentum.
Dblquad(func, a, b, gfun, hfun) ==
    LET inner(x) ==
            LET s[y \in (gfun[x] - 1)..(hfun[x] - 1)] ==
                    IF y < gfun[x] THEN 0 ELSE RAdd(func[<<y, x>>], s[y - 1])
            IN  s[hfun[x] - 1]
        outer[x \in (a - 1)..(b - 1)] ==
            IF x < a THEN 0 ELSE RAdd(inner(x), outer[x - 1])
        hh == RDiv(RMul(Pi, Pi), R(4))
    IN  RMul(hh, outer[b - 1])

\* The Brillouin zone limits -np.pi, np.pi (lines 112-118, 252-255).
kx_limit_low == -2
kx_limit_high == 2
ky_limit_low == [kx \in KGrid |-> -2]
ky_limit_high == [kx \in KGrid |-> 2]

\* (2.0*np.pi)**2.0
TwoPiSq == RMul(RMul(R(2), Pi), RMul(R(2), Pi))

\* ------------------------------------------------------------ dispersion
eps_k(kx, ky) == RMul(R(-2), RAdd(Cos(kx), Cos(ky)))

\* get_hyb_fm's return expression, as a function of the two integrator
\* results int_eps_k and int_eps_k_squared.
hyb_fm_of(int_eps_k, int_eps_k_squared) ==
    RMul(RDiv(R(1), TwoPiSq), RSub(int_eps_k_squared, int_eps_k))

get_hyb_fm ==
    LET eps_k_fn == [k \in KGrid \X KGrid |-> eps_k(k[1], k[2])]
        int_eps_k == Dblquad(eps_k_fn, kx_limit_low, kx_limit_high,
                             ky_limit_low, ky_limit_high)
        eps_k_squared == [k \in KGrid \X KGrid |->
                            RMul(eps_k(k[1], k[2]), eps_k(k[1], k[2]))]
        int_eps_k_squared == Dblquad(eps_k_squared, kx_limit_low, kx_limit_high,
                                     ky_limit_low, ky_limit_high)
    IN  hyb_fm_of(int_eps_k, int_eps_k_squared)

\* ----------------------------------------------------------------- Model
Model(t_, beta_, U_, hyb_) == [t |-> t_, beta |-> beta_, U |-> U_, hyb |-> hyb_]

\* Mutant of Model_eps_k: the stored hopping is used, the dispersion is
\* 2.0*self.t*(np.cos(kx) + np.cos(ky)).
Model_eps_k_hopping(self, kx, ky) ==
    RMul(RMul(R(2), self.t), RAdd(Cos(kx), Cos(ky)))

\* Mutant of Model_eps_k: np.sin is written for the second np.cos
\* (sin(k) = cos(k - pi/2)).
Model_eps_k_sin(self, kx, ky) == RMul(R(-2), RAdd(Cos(kx), Cos(ky - 1)))

\* Lines 174-175: return -2.0*(np.cos(kx) + np.cos(ky)); self is not read.
Model_eps_k(self, kx, ky) == RMul(R(-2), RAdd(Cos(kx), Cos(ky)))

\* iwn = 1.0j * (2.0 * n + 1.0) * np.pi / beta
Iwn(n, beta_) == CDiv(CMul(CMul(J, Cx(R(2 * n + 1))), Cx(Pi)), Cx(beta_))

\* np.zeros(shape, dtype=complex)
Zeros(shape) == [k \in 1..shape |-> CZero]

\* -------------------------------------------------------- ImpuritySolver
\* Mutant of solve: no array is allocated, the result is written into the
\* hybridization of the Model and that array is returned.
solve_in_place(m, h) ==
    LET shape          == Len(h[m.hyb])
        green_impurity == m.hyb
        self_energy    == [k \in 1..shape |-> Cx(RDiv(m.U, R(2)))]
        filled         == [k \in 1..shape |->
                             CRecip(CSub(CSub(Iwn(k - 1, m.beta), h[m.hyb][k]),
                                         self_energy[k]))]
    IN  [heap |-> [h EXCEPT ![green_impurity] = filled],
         ret  |-> green_impurity]

\* Mutant of solve: the self-energy is taken to be U instead of U / 2.
solve_full_U(m, h) ==
    LET shape          == Len(h[m.hyb])
        green_impurity == Len(h) + 1
        h1             == Append(h, Zeros(shape))
        self_energy    == [k \in 1..shape |-> Cx(m.U)]
        filled         == [k \in 1..shape |->
                             CRecip(CSub(CSub(Iwn(k - 1, m.beta), h1[m.hyb][k]),
                                         self_energy[k]))]
    IN  [heap |-> [h1 EXCEPT ![green_impurity] = filled],
         ret  |-> green_impurity]

\* ImpuritySolver.solve on the heap h, m being self.model: the heap after
\* the call and the address of the returned array.
solve(m, h) ==
    LET shape          == Len(h[m.hyb])
        green_impurity == Len(h) + 1
        h1             == Append(h, Zeros(shape))
        self_energy    == [k \in 1..shape |-> Cx(RDiv(m.U, R(2)))]
        filled         == [k \in 1..shape |->
                             CRecip(CSub(CSub(Iwn(k - 1, m.beta), h1[m.hyb][k]),
                                         self_energy[k]))]
    IN  [heap |-> [h1 EXCEPT ![green_impurity] = filled],
         ret  |-> green_impurity]

\* ------------------------------------------------------- SelfConsistency
\* Mutant of green_lattice_scalar_real: the integrand reads the self-energy
\* of the next index (cyclically) instead of that of index n.
green_lattice_scalar_real_next(m, kx, ky, self_energy, n) ==
    Re(CRecip(CSub(CSub(Iwn(n, m.beta), Cx(Model_eps_k(m, kx, ky))),
                   self_energy[((n + 1) % Len(self_energy)) + 1])))

\* The integrands; self_energy is the whole sequence, n the 0-based index.
green_lattice_scalar_real(m, kx, ky, self_energy, n) ==
    Re(CRecip(CSub(CSub(Iwn(n, m.beta), Cx(Model_eps_k(m, kx, ky))),
                   self_energy[n + 1])))

green_lattice_scalar_imag(m, kx, ky, self_energy, n) ==
    Im(CRecip(CSub(CSub(Iwn(n, m.beta), Cx(Model_eps_k(m, kx, ky))),
                   self_energy[n + 1])))

\* Mutant of extract_self_energy: the hybridization subtracted is the
\* initial guess 0 and not the hyb[n] of the Model.
extract_self_energy_first_guess(m, hyb_n, green_impurity_n, n) ==
    CSub(CSub(Iwn(n, m.beta), CZero), CRecip(green_impurity_n))

\* Line 245: self_energy[n] = iwn - self.model.hyb[n] - 1.0/self.green_impurity[n]
extract_self_energy(m, hyb_n, green_impurity_n, n) ==
    CSub(CSub(Iwn(n, m.beta), hyb_n), CRecip(green_impurity_n))

\* Mutant of lattice_body: the normalisation is applied before the imaginary
\* part is added, so only the real part is normalised.
lattice_body_early_norm(m, self_energy, n) ==
    LET re_part == [k \in KGrid \X KGrid |->
                      green_lattice_scalar_real(m, k[1], k[2], self_energy, n)]
        im_part == [k \in KGrid \X KGrid |->
                      green_lattice_scalar_imag(m, k[1], k[2], self_energy, n)]
        g1 == CDiv(Cx(Dblquad(re_part, kx_limit_low, kx_limit_high,
                              ky_limit_low, ky_limit_high)), Cx(TwoPiSq))
        g2 == CAdd(g1, CMul(J, Cx(Dblquad(im_part, kx_limit_low, kx_limit_high,
                                          ky_limit_low, ky_limit_high))))
    IN  [value |-> g2, calls |-> 2]

\* Lines 258-263: the body of the lattice loop for index n; the value left
\* in green_impurity_new[n] and the number of integrator calls made.
lattice_body(m, self_energy, n) ==
    LET re_part == [k \in KGrid \X KGrid |->
                      green_lattice_scalar_real(m, k[1], k[2], self_energy, n)]
        im_part == [k \in KGrid \X KGrid |->
                      green_lattice_scalar_imag(m, k[1], k[2], self_energy, n)]
        g1 == Cx(Dblquad(re_part, kx_limit_low, kx_limit_high,
                         ky_limit_low, ky_limit_high))
        g2 == CAdd(g1, CMul(J, Cx(Dblquad(im_part, kx_limit_low, kx_limit_high,
                                          ky_limit_low, ky_limit_high))))
    IN  [value |-> CDiv(g2, Cx(TwoPiSq)), calls |-> 2]

\* Mutant of update_hyb: the new hybridization is passed through
\* np.nan_to_num, a non-finite entry becomes 0.
update_hyb_nan_to_num(m, green_impurity_new_n, self_energy_n, n) ==
    LET v == CSub(CSub(Iwn(n, m.beta), CRecip(green_impurity_new_n)),
                  self_energy_n)
    IN  IF IsNaN(v) THEN CZero ELSE v

\* Mutant of update_hyb: the self-energy is added instead of subtracted.
update_hyb_plus(m, green_impurity_new_n, self_energy_n, n) ==
    CAdd(CSub(Iwn(n, m.beta), CRecip(green_impurity_new_n)), self_energy_n)

\* Line 270: hyb_new[n] = iwn - 1.0/green_impurity_new[n] - self_energy[n]
update_hyb(m, green_impurity_new_n, self_energy_n, n) ==
    CSub(CSub(Iwn(n, m.beta), CRecip(green_impurity_new_n)), self_energy_n)

\* Lines 257-263: for n in range(green_impurity_new.shape[0]); the array
\* and the number of integrator calls after the loop.
lattice_loop(m, self_energy, shape) ==
    LET after[n \in 0..shape] ==
            IF n = 0 THEN [arr |-> Zeros(shape), calls |-> 0]
            ELSE LET b == lattice_body(m, self_energy, n - 1)
                 IN  [arr   |-> [after[n - 1].arr EXCEPT ![n] = b.value],
                      calls |-> after[n - 1].calls + b.calls]
    IN  after[shape]

\* SelfConsistency.run_selfconsistency on the heap h, m being self.model
\* and g the address of self.green_impurity: the heap after the call, the
\* address of the returned array, and the locals self_energy and
\* green_impurity_new as they are at the return.
run_selfconsistency(m, g, h) ==
    LET shape       == Len(h[g])
        self_energy == [k \in 1..shape |->
                          extract_self_energy(m, h[m.hyb][k], h[g][k], k - 1)]
        lat         == lattice_loop(m, self_energy, shape)
        hyb_new     == Len(h) + 1
        h1          == Append(h, Zeros(shape))
        filled      == [k \in 1..shape |->
                          update_hyb(m, lat.arr[k], self_energy[k], k - 1)]
    IN  [heap               |-> [h1 EXCEPT ![hyb_new] = filled],
         ret                |-> hyb_new,
         self_energy        |-> self_energy,
         green_impurity_new |-> lat.arr,
         quad_calls         |-> lat.calls]

\* ---------------------------------------------------------------- driver
VARIABLES
    pc,              \* "INITIALIZING", "ITERATING", "DONE"
    step,            \* the next statement of the loop: "model", "solve", "sc"
    n_freq, t, beta, U, iter_max,      \* the simulation parameters
    ii,              \* number of completed passes of the loop
    heap,            \* the numpy arrays, by address
    models,          \* the Model objects, by identity
    hyb,             \* main's hyb: address of an array (0: unbound)
    model,           \* main's model: identity of a Model (0: unbound)
    impurity_solver, \* main's impurity_solver: its field model
    green_impurity,  \* main's green_impurity: address of an array
    selfconsistency, \* main's selfconsistency: its fields
    ret,             \* what main() returned
    run,             \* which call of main() this is
    hist,            \* history: the hybridization after each pass, as values
    prev,            \* history: hist and the output of the previous call
    counts,          \* history: statements executed in this call
    sc_locals,       \* history: locals of the last run_selfconsistency
    unit             \* inputs and output of a single function under test

vars == <<pc, step, n_freq, t, beta, U, iter_max, ii, heap, models, hyb, model,
          impurity_solver, green_impurity, selfconsistency, ret, run, hist,
          prev, counts, sc_locals, unit>>

params == <<n_freq, t, beta, U, iter_max>>

\* Parameter values the runs are drawn from (the notebook fixes n_freq = 200,
\* t = -1.0, beta = 10.0, U = 4.0, iter_max = 20).
Ns == 1..MaxN
Iters == 1..MaxIter
Ts == {R(-1), R(1)}
TsWide == Ts \union {R(2)}
Betas == {R(1), R(2), R(10)}
Us == {R(0), R(4)}

NoRet == [returned |-> FALSE, frequencies |-> <<>>, hyb |-> 0]
NoCounts == [model |-> 0, solve |-> 0, sc |-> 0, quad |-> 0]
NoLocals == [self_energy |-> <<>>, green_impurity_new |-> <<>>, hyb_new |-> 0,
             model |-> 0, green_impurity |-> 0]
NoUnit == [op |-> "none"]

Init ==
    /\ n_freq \in Ns
    /\ t \in Ts
    /\ beta \in Betas
    /\ U \in Us
    /\ iter_max \in Iters
    /\ heap = <<>>
    /\ models = <<>>
    /\ run = 1
    /\ prev = [hist |-> <<>>, frequencies |-> <<>>, hyb |-> <<>>]
    /\ unit = NoUnit
    /\ pc = "INITIALIZING"
    /\ step = "model"
    /\ ii = 0
    /\ hyb = 0
    /\ model = 0
    /\ impurity_solver = [model |-> 0]
    /\ green_impurity = 0
    /\ selfconsistency = [model |-> 0, green_impurity |-> 0]
    /\ ret = NoRet
    /\ hist = <<>>
    /\ counts = NoCounts
    /\ sc_locals = NoLocals

\* Mutant of InitHyb: np.empty instead of np.zeros, the array comes with
\* what the last array allocated before it held.
InitHyb_empty ==
    /\ pc = "INITIALIZING"
    /\ LET content == IF heap = <<>> THEN Zeros(n_freq) ELSE heap[Len(heap)]
       IN  /\ heap' = Append(heap, content)
           /\ hist' = <<content>>
    /\ hyb' = Len(heap) + 1
    /\ pc' = "ITERATING"
    /\ UNCHANGED <<step, params, ii, models, model, impurity_solver,
                   green_impurity, selfconsistency, ret, run, prev, counts,
                   sc_locals, unit>>

\* Mutant of InitHyb: the initial guess has one entry too many.
InitHyb_long ==
    /\ pc = "INITIALIZING"
    /\ heap' = Append(heap, Zeros(n_freq + 1))
    /\ hyb' = Len(heap) + 1
    /\ hist' = <<Zeros(n_freq + 1)>>
    /\ pc' = "ITERATING"
    /\ UNCHANGED <<step, params, ii, models, model, impurity_solver,
                   green_impurity, selfconsistency, ret, run, prev, counts,
                   sc_locals, unit>>

\* Line 294: hyb = np.zeros(n_freq, dtype=complex)
InitHyb ==
    /\ pc = "INITIALIZING"
    /\ heap' = Append(heap, Zeros(n_freq))
    /\ hyb' = Len(heap) + 1
    /\ hist' = <<Zeros(n_freq)>>
    /\ pc' = "ITERATING"
    /\ UNCHANGED <<step, params, ii, models, model, impurity_solver,
                   green_impurity, selfconsistency, ret, run, prev, counts,
                   sc_locals, unit>>

\* Mutant of BuildModel: the loop runs over range(iter_max + 1).
BuildModel_once_more ==
    /\ pc = "ITERATING" /\ step = "model" /\ ii < iter_max + 1
    /\ models' = Append(models, Model(t, beta, U, hyb))
    /\ model' = Len(models) + 1
    /\ counts' = [counts EXCEPT !.model = @ + 1]
    /\ step' = "solve"
    /\ UNCHANGED <<pc, params, ii, heap, hyb, impurity_solver, green_impurity,
                   selfconsistency, ret, run, hist, prev, sc_locals, unit>>

\* Lines 296-297: the loop test and model = Model(t, beta, U, hyb)
BuildModel ==
    /\ pc = "ITERATING" /\ step = "model" /\ ii < iter_max
    /\ models' = Append(models, Model(t, beta, U, hyb))
    /\ model' = Len(models) + 1
    /\ counts' = [counts EXCEPT !.model = @ + 1]
    /\ step' = "solve"
    /\ UNCHANGED <<pc, params, ii, heap, hyb, impurity_solver, green_impurity,
                   selfconsistency, ret, run, hist, prev, sc_locals, unit>>

\* Lines 298-299: impurity_solver = ImpuritySolver(model);
\* green_impurity = impurity_solver.solve()
Solve ==
    /\ pc = "ITERATING" /\ step = "solve"
    /\ impurity_solver' = [model |-> model]
    /\ LET r == solve(models[impurity_solver'.model], heap)
       IN  /\ heap' = r.heap
           /\ green_impurity' = r.ret
    /\ counts' = [counts EXCEPT !.solve = @ + 1]
    /\ step' = "sc"
    /\ UNCHANGED <<pc, params, ii, models, hyb, model, selfconsistency, ret,
                   run, hist, prev, sc_locals, unit>>

\* Mutant of RunSelfConsistency: the returned hybridization is not bound to
\* hyb, so the next Model is built from the old one.
RunSelfConsistency_result_dropped ==
    /\ pc = "ITERATING" /\ step = "sc"
    /\ selfconsistency' = [model |-> model, green_impurity |-> green_impurity]
    /\ LET r == run_selfconsistency(models[selfconsistency'.model],
                                    selfconsistency'.green_impurity, heap)
       IN  /\ heap' = r.heap
           /\ hist' = Append(hist, r.heap[r.ret])
           /\ sc_locals' = [self_energy        |-> r.self_energy,
                            green_impurity_new |-> r.green_impurity_new,
                            hyb_new            |-> r.ret,
                            model              |-> selfconsistency'.model,
                            green_impurity     |-> selfconsistency'.green_impurity]
           /\ counts' = [counts EXCEPT !.sc = @ + 1, !.quad = @ + r.quad_calls]
    /\ ii' = ii + 1
    /\ step' = "model"
    /\ UNCHANGED <<pc, params, models, hyb, model, impurity_solver,
                   green_impurity, ret, run, prev, unit>>

\* Lines 300-301: selfconsistency = SelfConsistency(model, green_impurity);
\* hyb = selfconsistency.run_selfconsistency()
RunSelfConsistency ==
    /\ pc = "ITERATING" /\ step = "sc"
    /\ selfconsistency' = [model |-> model, green_impurity |-> green_impurity]
    /\ LET r == run_selfconsistency(models[selfconsistency'.model],
                                    selfconsistency'.green_impurity, heap)
       IN  /\ heap' = r.heap
           /\ hyb' = r.ret
           /\ hist' = Append(hist, r.heap[r.ret])
           /\ sc_locals' = [self_energy        |-> r.self_energy,
                            green_impurity_new |-> r.green_impurity_new,
                            hyb_new            |-> r.ret,
                            model              |-> selfconsistency'.model,
                            green_impurity     |-> selfconsistency'.green_impurity]
           /\ counts' = [counts EXCEPT !.sc = @ + 1, !.quad = @ + r.quad_calls]
    /\ ii' = ii + 1
    /\ step' = "model"
    /\ UNCHANGED <<pc, params, models, model, impurity_solver, green_impurity,
                   ret, run, prev, unit>>

\* Lines 296, 303-304: the loop is exhausted; frequencies and the return.
Return ==
    /\ pc = "ITERATING" /\ step = "model" /\ ~(ii < iter_max)
    /\ ret' = [returned    |-> TRUE,
               frequencies |-> [k \in 1..n_freq |->
                                  RDiv(RMul(R(2 * (k - 1) + 1), Pi), beta)],
               hyb         |-> hyb]
    /\ pc' = "DONE"
    /\ UNCHANGED <<step, params, ii, heap, models, hyb, model, impurity_solver,
                   green_impurity, selfconsistency, run, hist, prev, counts,
                   sc_locals, unit>>

\* Line 321: the cell "frequencies, hyb = main()" is executed again, with
\* the arrays of the earlier calls still on the heap and fresh locals.
CallAgain ==
    /\ pc = "DONE" /\ run < MaxRuns
    /\ run' = run + 1
    /\ prev' = [hist |-> hist, frequencies |-> ret.frequencies,
                hyb |-> heap[ret.hyb]]
    /\ pc' = "INITIALIZING"
    /\ step' = "model"
    /\ ii' = 0
    /\ hyb' = 0
    /\ model' = 0
    /\ impurity_solver' = [model |-> 0]
    /\ green_impurity' = 0
    /\ selfconsistency' = [model |-> 0, green_impurity |-> 0]
    /\ ret' = NoRet
    /\ hist' = <<>>
    /\ counts' = NoCounts
    /\ sc_locals' = NoLocals
    /\ UNCHANGED <<params, heap, models, unit>>

Next ==
    \/ InitHyb
    \/ BuildModel
    \/ Solve
    \/ RunSelfConsistency
    \/ Return
    \/ CallAgain

Spec == Init /\ [][Next]_vars

\* ------------------------------------------------ single functions, alone
\* The variables of main() while main() is not running.
mainvars == <<pc, step, n_freq, t, beta, U, iter_max, ii, heap, models, hyb,
              model, impurity_solver, green_impurity, selfconsistency, ret,
              run, hist, prev, counts, sc_locals>>

NoCall ==
    /\ n_freq = 1 /\ t = R(-1) /\ beta = R(10) /\ U = R(4) /\ iter_max = 1
    /\ heap = <<>>
    /\ models = <<>>
    /\ run = 1
    /\ prev = [hist |-> <<>>, frequencies |-> <<>>, hyb |-> <<>>]
    /\ pc = "INITIALIZING"
    /\ step = "model"
    /\ ii = 0
    /\ hyb = 0
    /\ model = 0
    /\ impurity_solver = [model |-> 0]
    /\ green_impurity = 0
    /\ selfconsistency = [model |-> 0, green_impurity |-> 0]
    /\ ret = NoRet
    /\ hist = <<>>
    /\ counts = NoCounts
    /\ sc_locals = NoLocals

\* Complex inputs: both components among -1, 0, ..., MaxC.
SmallVals == { R(x) : x \in (-1)..MaxC }
CSmall == SmallVals \X SmallVals
CTiny == {CZero, COne, <<2, 1>>}
CPair == {CZero, <<1, 2>>}

\* Lines 245 and 270 at one index n, the lattice Green's function of line
\* 270 being replaced by green_impurity[n] itself.
InitRoundTrip ==
    /\ NoCall
    /\ unit \in [op : {"roundtrip"}, pc : {"extract"}, n : 0..(MaxN - 1),
                 beta : Betas, hyb_n : CSmall, green_impurity_n : CSmall,
                 self_energy_n : {CZero}, hyb_new_n : {CZero}]

ExtractOne ==
    /\ unit.op = "roundtrip" /\ unit.pc = "extract"
    /\ unit' = [unit EXCEPT
                  !.self_energy_n =
                      extract_self_energy(Model(t, unit.beta, U, 0), unit.hyb_n,
                                          unit.green_impurity_n, unit.n),
                  !.pc = "update"]
    /\ UNCHANGED mainvars

UpdateOne ==
    /\ unit.op = "roundtrip" /\ unit.pc = "update"
    /\ unit' = [unit EXCEPT
                  !.hyb_new_n =
                      update_hyb(Model(t, unit.beta, U, 0), unit.green_impurity_n,
                                 unit.self_energy_n, unit.n),
                  !.pc = "done"]
    /\ UNCHANGED mainvars

NextRoundTrip == ExtractOne \/ UpdateOne

SpecRoundTrip == InitRoundTrip /\ [][NextRoundTrip]_vars

\* get_hyb_fm, the two calls of dblquad returning any float.
InitFirstMoment ==
    /\ NoCall
    /\ unit = [op |-> "get_hyb_fm", pc |-> "int_eps_k", int_eps_k |-> 0,
               int_eps_k_squared |-> 0, out |-> 0]

\* Line 122
IntegrateEps ==
    /\ unit.op = "get_hyb_fm" /\ unit.pc = "int_eps_k"
    /\ \E r \in 0..(P - 1) :
         unit' = [unit EXCEPT !.int_eps_k = r, !.pc = "int_eps_k_squared"]
    /\ UNCHANGED mainvars

\* Lines 124-125
IntegrateEpsSquared ==
    /\ unit.op = "get_hyb_fm" /\ unit.pc = "int_eps_k_squared"
    /\ \E r \in 0..(P - 1) :
         unit' = [unit EXCEPT !.int_eps_k_squared = r, !.pc = "return"]
    /\ UNCHANGED mainvars

\* Line 127
ReturnFirstMoment ==
    /\ unit.op = "get_hyb_fm" /\ unit.pc = "return"
    /\ unit' = [unit EXCEPT
                  !.out = hyb_fm_of(unit.int_eps_k, unit.int_eps_k_squared),
                  !.pc = "done"]
    /\ UNCHANGED mainvars

NextFirstMoment == IntegrateEps \/ IntegrateEpsSquared \/ ReturnFirstMoment

SpecFirstMoment == InitFirstMoment /\ [][NextFirstMoment]_vars

\* run_selfconsistency with the passes of its lattice loop (lines 257-263)
\* taken in any order, as when they are handed to workers; order records
\* the order taken.
InitAnyOrder ==
    /\ NoCall
    /\ \E N \in Ns : \E b \in Betas :
         \E D \in [1..N -> CPair] : \E G \in [1..N -> CTiny] :
           unit = [op |-> "anyorder", pc |-> "extract", beta |-> b,
                   hyb |-> D, green_impurity |-> G,
                   self_energy |-> Zeros(N), green_impurity_new |-> Zeros(N),
                   hyb_new |-> Zeros(N), pending |-> {}, order |-> <<>>]

\* Lines 242-245
ExtractAll ==
    /\ unit.op = "anyorder" /\ unit.pc = "extract"
    /\ unit' = [unit EXCEPT
                  !.self_energy =
                      [k \in 1..Len(unit.green_impurity) |->
                         extract_self_energy(Model(t, unit.beta, U, 0),
                                             unit.hyb[k], unit.green_impurity[k],
                                             k - 1)],
                  !.pending = 0..(Len(unit.green_impurity) - 1),
                  !.pc = "lattice"]
    /\ UNCHANGED mainvars

\* Lines 258-263 for one index n not yet done
LatticeIndex ==
    /\ unit.op = "anyorder" /\ unit.pc = "lattice"
    /\ \E n \in unit.pending :
         unit' = [unit EXCEPT
                    !.green_impurity_new[n + 1] =
                        lattice_body(Model(t, unit.beta, U, 0),
                                     unit.self_energy, n).value,
                    !.pending = @ \ {n},
                    !.order = Append(@, n)]
    /\ UNCHANGED mainvars

\* Lines 267-273
UpdateAll ==
    /\ unit.op = "anyorder" /\ unit.pc = "lattice" /\ unit.pending = {}
    /\ unit' = [unit EXCEPT
                  !.hyb_new =
                      [k \in 1..Len(unit.green_impurity) |->
                         update_hyb(Model(t, unit.beta, U, 0),
                                    unit.green_impurity_new[k],
                                    unit.self_energy[k], k - 1)],
                  !.pc = "done"]
    /\ UNCHANGED mainvars

NextAnyOrder == ExtractAll \/ LatticeIndex \/ UpdateAll

SpecAnyOrder == InitAnyOrder /\ [][NextAnyOrder]_vars

\* The control flow of main() alone: the statement at the program counter is
\* executed and the program counter moves on.  Every step of Next is such a
\* step, and no statement of main() can block.
ctl == <<pc, step, run>>

Advance ==
    \/ /\ pc = "INITIALIZING"
       /\ pc' = "ITERATING" /\ UNCHANGED <<step, run>>
    \/ /\ pc = "ITERATING" /\ step = "model" /\ ii < iter_max
       /\ step' = "solve" /\ UNCHANGED <<pc, run>>
    \/ /\ pc = "ITERATING" /\ step = "solve"
       /\ step' = "sc" /\ UNCHANGED <<pc, run>>
    \/ /\ pc = "ITERATING" /\ step = "sc"
       /\ step' = "model" /\ UNCHANGED <<pc, run>>
    \/ /\ pc = "ITERATING" /\ step = "model" /\ ~(ii < iter_max)
       /\ pc' = "DONE" /\ UNCHANGED <<step, run>>
    \/ /\ pc = "DONE" /\ run < MaxRuns
       /\ run' = run + 1 /\ pc' = "INITIALIZING" /\ step' = "model"

\* main() is sequential code on one thread: it keeps executing statements.
FairSpec == Init /\ [][Next]_vars /\ WF_ctl(Advance)

\* --------------------------------- the loop of main(), entered with any hyb
\* Lines 202, 206: the value of hyb[n] at which iwn - hyb[n] - self_energy[n]
\* is zero, so that line 206 divides by zero.
Pole(n, beta_, U_) == CSub(Iwn(n, beta_), Cx(RDiv(U_, 2)))

\* The hybridizations a pass may start from: the zeros of line 294, the pole
\* of line 206, and one more value.
HybEntry(sel, n, beta_, U_) ==
    CASE sel = 0 -> CZero
      [] sel = 1 -> Pole(n, beta_, U_)
      [] OTHER   -> <<1, 2>>

\* Line 296: main() at the head of its loop, hyb being bound to an array of
\* n_freq complex numbers as it is after line 294 and after every line 301.
InitSingular ==
    /\ n_freq \in Ns
    /\ t = R(-1)
    /\ beta \in Betas
    /\ U \in Us
    /\ iter_max \in Iters
    /\ \E sel \in [1..n_freq -> 0..2] :
         /\ heap = <<[k \in 1..n_freq |-> HybEntry(sel[k], k - 1, beta, U)]>>
         /\ hist = heap
    /\ models = <<>>
    /\ run = 1
    /\ prev = [hist |-> <<>>, frequencies |-> <<>>, hyb |-> <<>>]
    /\ unit = NoUnit
    /\ pc = "ITERATING"
    /\ step = "model"
    /\ ii = 0
    /\ hyb = 1
    /\ model = 0
    /\ impurity_solver = [model |-> 0]
    /\ green_impurity = 0
    /\ selfconsistency = [model |-> 0, green_impurity |-> 0]
    /\ ret = NoRet
    /\ counts = NoCounts
    /\ sc_locals = NoLocals

NextSingular ==
    \/ BuildModel
    \/ Solve
    \/ RunSelfConsistency
    \/ Return

\* The control flow of the loop and the return: no statement of it blocks.
AdvanceLoop ==
    \/ /\ pc = "ITERATING" /\ step = "model" /\ ii < iter_max
       /\ step' = "solve" /\ UNCHANGED <<pc, run>>
    \/ /\ pc = "ITERATING" /\ step = "solve"
       /\ step' = "sc" /\ UNCHANGED <<pc, run>>
    \/ /\ pc = "ITERATING" /\ step = "sc"
       /\ step' = "model" /\ UNCHANGED <<pc, run>>
    \/ /\ pc = "ITERATING" /\ step = "model" /\ ~(ii < iter_max)
       /\ pc' = "DONE" /\ UNCHANGED <<step, run>>

SpecSingular == InitSingular /\ [][NextSingular]_vars /\ WF_ctl(AdvanceLoop)

\* ------------------------------------------ an integrator call that raises
\* Mutant of RunSelfConsistencyRaises: the call of line 301 is wrapped in
\* try/except, the failed pass is skipped and the loop goes on.
RunSelfConsistencyRaises_caught ==
    /\ pc = "ITERATING" /\ step = "sc"
    /\ selfconsistency' = [model |-> model, green_impurity |-> green_impurity]
    /\ \E n \in 0..(Len(heap[green_impurity]) - 1), part \in 1..2 :
         /\ counts' = [counts EXCEPT !.quad = @ + 2 * n + part]
         /\ unit' = [op |-> "IntegrationError", ii |-> ii, n |-> n,
                     part |-> part]
    /\ ii' = ii + 1
    /\ step' = "model"
    /\ UNCHANGED <<pc, params, heap, models, hyb, model, impurity_solver,
                   green_impurity, ret, run, hist, prev, sc_locals>>

\* Lines 300-301 with lines 258-261: selfconsistency is built and
\* run_selfconsistency is called; in its lattice loop the integrator call
\* for the real (part = 1) or the imaginary (part = 2) part at index n
\* raises, after 2 * n calls that returned.  Neither run_selfconsistency nor
\* main() has a handler: the exception leaves both, their locals are gone,
\* hyb_new (line 267) was never allocated.  unit holds the exception.
RunSelfConsistencyRaises ==
    /\ pc = "ITERATING" /\ step = "sc"
    /\ selfconsistency' = [model |-> model, green_impurity |-> green_impurity]
    /\ \E n \in 0..(Len(heap[green_impurity]) - 1), part \in 1..2 :
         /\ counts' = [counts EXCEPT !.quad = @ + 2 * n + part]
         /\ unit' = [op |-> "IntegrationError", ii |-> ii, n |-> n,
                     part |-> part]
    /\ pc' = "RAISED"
    /\ UNCHANGED <<step, params, ii, heap, models, hyb, model,
                   impurity_solver, green_impurity, ret, run, hist, prev,
                   sc_locals>>

NextQuadFail ==
    \/ InitHyb
    \/ BuildModel
    \/ Solve
    \/ RunSelfConsistency
    \/ RunSelfConsistencyRaises
    \/ Return

SpecQuadFail == Init /\ [][NextQuadFail]_vars

\* ------------------------------------ main() with any n_freq and iter_max
\* Lines 287, 291: the values of n_freq and iter_max, zero included.  main()
\* has no test of its parameters: np.zeros(0) is an empty array, range(0)
\* an empty loop.
NsAny == 0..MaxN
ItersAny == 0..MaxIter

InitConfig ==
    /\ n_freq \in NsAny
    /\ t \in Ts
    /\ beta \in Betas
    /\ U \in Us
    /\ iter_max \in ItersAny
    /\ heap = <<>>
    /\ models = <<>>
    /\ run = 1
    /\ prev = [hist |-> <<>>, frequencies |-> <<>>, hyb |-> <<>>]
    /\ unit = NoUnit
    /\ pc = "INITIALIZING"
    /\ step = "model"
    /\ ii = 0
    /\ hyb = 0
    /\ model = 0
    /\ impurity_solver = [model |-> 0]
    /\ green_impurity = 0
    /\ selfconsistency = [model |-> 0, green_impurity |-> 0]
    /\ ret = NoRet
    /\ hist = <<>>
    /\ counts = NoCounts
    /\ sc_locals = NoLocals

SpecConfig == InitConfig /\ [][Next]_vars

\* ------------------------------------------- the two dispersions, alone
\* The momenta the dispersions are called with, in units of pi/2.
KAny == (-MaxK)..MaxK

InitDispersion ==
    /\ NoCall
    /\ \E kx \in KAny, ky \in KAny, t_ \in Ts :
         unit = [op |-> "eps_k", kx |-> kx, ky |-> ky,
                 self |-> Model(t_, R(10), R(4), 0),
                 free |-> <<>>, method |-> <<>>]

\* Lines 98-101: eps_k called at (kx, ky), (-kx, -ky) and (ky, kx).
CallEpsK ==
    /\ unit.op = "eps_k" /\ unit.free = <<>>
    /\ unit' = [unit EXCEPT !.free = <<eps_k(unit.kx, unit.ky),
                                       eps_k(-unit.kx, -unit.ky),
                                       eps_k(unit.ky, unit.kx)>>]
    /\ UNCHANGED mainvars

\* Lines 174-175: self.eps_k called at the same three points.
CallModelEpsK ==
    /\ unit.op = "eps_k" /\ unit.method = <<>>
    /\ unit' = [unit EXCEPT !.method =
                    <<Model_eps_k(unit.self, unit.kx, unit.ky),
                      Model_eps_k(unit.self, -unit.kx, -unit.ky),
                      Model_eps_k(unit.self, unit.ky, unit.kx)>>]
    /\ UNCHANGED mainvars

NextDispersion ==
    \/ CallEpsK
    \/ CallModelEpsK

SpecDispersion == InitDispersion /\ [][NextDispersion]_vars

\* ----------------------------------------- main() again with another t
\* Line 288 is edited to another value of t and the cell of line 321 is
\* executed again; unit keeps the t of the call before.
CallOtherHopping ==
    /\ pc = "DONE" /\ run < MaxRuns
    /\ \E t_ \in TsWide \ {t} : t' = t_
    /\ unit' = [op |-> "hopping", t |-> t]
    /\ run' = run + 1
    /\ prev' = [hist |-> hist, frequencies |-> ret.frequencies,
                hyb |-> heap[ret.hyb]]
    /\ pc' = "INITIALIZING"
    /\ step' = "model"
    /\ ii' = 0
    /\ hyb' = 0
    /\ model' = 0
    /\ impurity_solver' = [model |-> 0]
    /\ green_impurity' = 0
    /\ selfconsistency' = [model |-> 0, green_impurity |-> 0]
    /\ ret' = NoRet
    /\ hist' = <<>>
    /\ counts' = NoCounts
    /\ sc_locals' = NoLocals
    /\ UNCHANGED <<n_freq, beta, U, iter_max, heap, models>>

NextHopping ==
    \/ InitHyb
    \/ BuildModel
    \/ Solve
    \/ RunSelfConsistency
    \/ Return
    \/ CallOtherHopping

SpecHopping == Init /\ [][NextHopping]_vars

\* =================================================================== claims
AllCounts(k) == counts.model = k /\ counts.solve = k /\ counts.sc = k

\* C1: every call of main() executes the loop body (build Model, solve,
\* run_selfconsistency) exactly iter_max times and then reaches DONE and
\* returns: no statement of the body ever runs more than iter_max times,
\* nothing is returned before all three ran iter_max times, and every call
\* that starts does return.
C1_ExactlyIterMax ==
    /\ [](/\ counts.model <= iter_max
          /\ counts.solve <= iter_max
          /\ counts.sc <= iter_max
          /\ (ret.returned <=> pc = "DONE")
          /\ (ret.returned => AllCounts(iter_max) /\ ii = iter_max))
    /\ \A r \in 1..MaxRuns :
         (pc = "INITIALIZING" /\ run = r)
            ~> (pc = "DONE" /\ run = r /\ ret.returned /\ AllCounts(iter_max))

C1_Witness ==
    pc = "DONE" /\ ret.returned /\ iter_max > 1 /\ AllCounts(iter_max)

\* C2: the hybridization starts as zero at every index; in pass k the
\* statements run in the order Model, solve, run_selfconsistency; the Model
\* of pass k holds the hybridization returned by pass k - 1 (the zero
\* sequence for k = 1); the solver and the self-consistency step are given
\* that same Model; main() returns the hybridization of pass iter_max.
C2_LoopOrder ==
    /\ pc # "INITIALIZING" =>
         /\ Len(hist) = ii + 1
         /\ hist[1] = [k \in 1..n_freq |-> CZero]
         /\ heap[hyb] = hist[ii + 1]
    /\ (pc = "ITERATING" /\ step = "model") => AllCounts(ii)
    /\ (pc = "ITERATING" /\ step = "solve") =>
         /\ counts.model = ii + 1 /\ counts.solve = ii /\ counts.sc = ii
         /\ heap[models[model].hyb] = hist[ii + 1]
    /\ (pc = "ITERATING" /\ step = "sc") =>
         /\ counts.model = ii + 1 /\ counts.solve = ii + 1 /\ counts.sc = ii
         /\ impurity_solver.model = model
         /\ heap[models[model].hyb] = hist[ii + 1]
    /\ (sc_locals.hyb_new # 0 /\ step = "model") =>
         /\ sc_locals.model = impurity_solver.model
         /\ sc_locals.model = model
         /\ sc_locals.green_impurity = green_impurity
         /\ hyb = sc_locals.hyb_new
         /\ heap[models[sc_locals.model].hyb] = hist[counts.sc]
         /\ heap[sc_locals.hyb_new] = hist[counts.sc + 1]
    /\ pc = "DONE" => heap[ret.hyb] = hist[iter_max + 1]

C2_Witness ==
    /\ pc = "DONE" /\ iter_max = 2
    /\ heap[models[2].hyb] = hist[2] /\ hist[2] # hist[1]
    /\ heap[ret.hyb] = hist[3]

\* C3: every sequence of a call of main() has length n_freq: the initial
\* hybridization, the hyb of every Model, every impurity Green's function,
\* the self-energy and the lattice Green's function inside
\* run_selfconsistency, every hyb_new, and the two returned sequences.
C3_LengthN ==
    /\ \A a \in DOMAIN heap : Len(heap[a]) = n_freq
    /\ \A i \in DOMAIN models : Len(heap[models[i].hyb]) = n_freq
    /\ \A i \in DOMAIN hist : Len(hist[i]) = n_freq
    /\ hyb # 0 => Len(heap[hyb]) = n_freq
    /\ green_impurity # 0 => Len(heap[green_impurity]) = n_freq
    /\ sc_locals.hyb_new # 0 =>
         /\ Len(sc_locals.self_energy) = n_freq
         /\ Len(sc_locals.green_impurity_new) = n_freq
         /\ Len(heap[sc_locals.hyb_new]) = n_freq
    /\ ret.returned =>
         /\ Len(ret.frequencies) = n_freq
         /\ Len(heap[ret.hyb]) = n_freq

C3_Witness ==
    /\ ret.returned /\ n_freq = MaxN /\ sc_locals.hyb_new # 0
    /\ Len(ret.frequencies) = MaxN /\ Len(heap[ret.hyb]) = MaxN

\* The Matsubara frequency i(2n+1)pi/beta of index n, built from its
\* imaginary part.
MatsubaraIw(n, b) == C(0, RDiv(RMul(R(2 * n + 1), Pi), b))

\* C4: solve returns at every index n the inverse of iwn - hyb[n] - U/2, with
\* the same U/2 at every n (a non-finite value where that is zero); for hyb
\* zero and U = 0 it returns 1/(iwn) = -i beta/((2n+1) pi), which for N = 1,
\* beta = 10 is -10i/pi.
C4_SolveFormula ==
    (pc = "ITERATING" /\ step = "sc") =>
        LET m == models[impurity_solver.model]
            G == heap[green_impurity]
            D == heap[m.hyb]
        IN  /\ DOMAIN G = 1..n_freq
            /\ \A k \in 1..n_freq :
                 LET den == CSub(CSub(MatsubaraIw(k - 1, m.beta), D[k]),
                                 Cx(RDiv(m.U, R(2))))
                 IN  /\ den # CZero => CMul(G[k], den) = COne
                     /\ den = CZero => IsNaN(G[k])
                     /\ (D[k] = CZero /\ m.U = 0) =>
                          G[k] = C(0, RSub(0, RDiv(m.beta,
                                                   RMul(R(2 * (k - 1) + 1), Pi))))
            /\ (n_freq = 1 /\ m.beta = R(10) /\ m.U = 0 /\ D[1] = CZero) =>
                 G[1] = C(0, RSub(0, RDiv(R(10), Pi)))

C4_Witness ==
    /\ pc = "ITERATING" /\ step = "sc" /\ ii = 1 /\ U # 0
    /\ \A k \in 1..n_freq : heap[models[impurity_solver.model].hyb][k] # CZero
    /\ \A k \in 1..n_freq : IsFinite(heap[green_impurity][k])

\* C5: run_selfconsistency computes at every n the self-energy
\* Sigma[n] = iwn - hyb[n] - 1/G_imp[n], then G_latt[n] with
\* (2 pi)^2 G_latt[n] = R_n + i I_n, R_n and I_n being the integrals over the
\* Brillouin zone of the real and of the imaginary part of
\* 1/(iwn - eps(kx, ky) - Sigma[n]), by exactly two integrator calls per n, and
\* returns hyb_new[n] = iwn - 1/G_latt[n] - Sigma[n] with that same Sigma.
C5_SelfConsistencyFormula ==
    sc_locals.hyb_new # 0 =>
        LET m == models[sc_locals.model]
            G == heap[sc_locals.green_impurity]
            D == heap[m.hyb]
            S == sc_locals.self_energy
            L == sc_locals.green_impurity_new
            H == heap[sc_locals.hyb_new]
        IN  /\ counts.quad = 2 * n_freq * counts.sc
            /\ \A k \in 1..n_freq :
                 LET iw == MatsubaraIw(k - 1, m.beta)
                     gk == [q \in KGrid \X KGrid |->
                              CRecip(CSub(CSub(iw, Cx(eps_k(q[1], q[2]))), S[k]))]
                     Rn == Dblquad([q \in KGrid \X KGrid |-> Re(gk[q])],
                                   kx_limit_low, kx_limit_high,
                                   ky_limit_low, ky_limit_high)
                     In == Dblquad([q \in KGrid \X KGrid |-> Im(gk[q])],
                                   kx_limit_low, kx_limit_high,
                                   ky_limit_low, ky_limit_high)
                 IN  /\ S[k] = CSub(CSub(iw, D[k]), CRecip(G[k]))
                     /\ CMul(L[k], Cx(TwoPiSq)) = C(Rn, In)
                     /\ H[k] = CSub(CSub(iw, CRecip(L[k])), S[k])

C5_Witness ==
    /\ sc_locals.hyb_new # 0 /\ counts.sc = 2 /\ n_freq = MaxN
    /\ counts.quad = 4 * MaxN
    /\ \A k \in 1..n_freq :
         /\ IsFinite(heap[sc_locals.hyb_new][k])
         /\ Im(sc_locals.green_impurity_new[k]) # 0
         /\ Re(sc_locals.green_impurity_new[k]) # 0

\* C7: a second call of main() with the same parameters goes through the
\* same hybridizations as the call before it and returns the same frequency
\* and hybridization sequences, whatever the earlier calls left on the heap.
C7_Deterministic ==
    run > 1 =>
        /\ Len(hist) <= Len(prev.hist)
        /\ \A i \in DOMAIN hist : hist[i] = prev.hist[i]
        /\ pc = "DONE" =>
             /\ hist = prev.hist
             /\ ret.frequencies = prev.frequencies
             /\ heap[ret.hyb] = prev.hyb

C7_Witness ==
    /\ run = 2 /\ pc = "DONE" /\ iter_max = MaxIter
    /\ Len(hist) = iter_max + 1 /\ hist = prev.hist
    /\ hist[iter_max + 1] # hist[1]
    /\ heap[ret.hyb] = prev.hyb /\ ret.frequencies = prev.frequencies

\* C10: solve and run_selfconsistency leave every array that exists when
\* they are called unchanged (the hyb of the Model, green_impurity), leave
\* the Models unchanged, and return a newly allocated array, different from
\* model.hyb and from green_impurity; no step of main() changes an array
\* once it is made.
C10_FrameEffect ==
    [][ /\ \A a \in DOMAIN heap : a \in DOMAIN heap' /\ heap'[a] = heap[a]
        /\ \A i \in DOMAIN models : i \in DOMAIN models' /\ models'[i] = models[i]
        /\ (pc = "ITERATING" /\ step = "solve") =>
             /\ green_impurity' \notin DOMAIN heap
             /\ green_impurity' \in DOMAIN heap'
             /\ green_impurity' # models[model].hyb
        /\ (pc = "ITERATING" /\ step = "sc") =>
             /\ hyb' \notin DOMAIN heap
             /\ hyb' \in DOMAIN heap'
             /\ hyb' \notin {models[model].hyb, green_impurity}
      ]_vars

C10_Witness ==
    /\ pc = "ITERATING" /\ step = "model" /\ ii = 2
    /\ hyb \notin {models[model].hyb, green_impurity}
    /\ green_impurity # models[model].hyb
    /\ heap[models[model].hyb] = hist[2]
    /\ heap[models[1].hyb] = hist[1]

\* C6: for every n, every hyb[n] and every G_imp[n] # 0, the self-energy
\* extraction followed by the hybridization update with G_imp[n] in the place
\* of the lattice Green's function gives back hyb[n].
C6_RoundTrip ==
    (unit.op = "roundtrip" /\ unit.pc = "done" /\ unit.green_impurity_n # CZero)
        => unit.hyb_new_n = unit.hyb_n

C6_Witness ==
    /\ unit.op = "roundtrip" /\ unit.pc = "done"
    /\ unit.n = 1
    /\ unit.green_impurity_n = <<2, 1>> /\ unit.hyb_n = <<1, 2>>
    /\ unit.self_energy_n # CZero
    /\ unit.hyb_new_n = unit.hyb_n

\* C8 (as claimed): get_hyb_fm returns (I2 - I1^2)/(2 pi)^2 for the integrator
\* results I1 of eps and I2 of eps^2, the integral of eps being squared
\* before it is subtracted.
C8_SquaredBeforeSubtracted ==
    (unit.op = "get_hyb_fm" /\ unit.pc = "done") =>
        unit.out = RMul(RDiv(R(1), TwoPiSq),
                        RSub(unit.int_eps_k_squared,
                             RMul(unit.int_eps_k, unit.int_eps_k)))

\* hyb_new[n] as a function of n, beta, hyb[n] and G_imp[n] alone: the
\* self-energy sequence handed to the integrands holds nothing but the
\* self-energy of index n.
PointLattice(n, b, hyb_n, g_n) ==
    LET mm == Model(0, b, 0, 0)
        se == extract_self_energy(mm, hyb_n, g_n, n)
        only == [k \in 1..(n + 1) |-> IF k = n + 1 THEN se ELSE CZero]
    IN  lattice_body(mm, only, n).value

PointUpdate(n, b, hyb_n, g_n) ==
    LET mm == Model(0, b, 0, 0)
        se == extract_self_energy(mm, hyb_n, g_n, n)
    IN  update_hyb(mm, PointLattice(n, b, hyb_n, g_n), se, n)

\* C9: in whatever order the indices of the lattice loop are processed, the
\* lattice Green's function of every processed index n and, at the end,
\* hyb_new[n] are the values that n, beta, hyb[n] and G_imp[n] alone
\* determine, and hyb_new is the sequence the sequential order 0..N-1 gives.
C9_OrderIndependent ==
    unit.op = "anyorder" =>
        /\ unit.pc = "lattice" =>
             \A n \in (0..(Len(unit.hyb) - 1)) \ unit.pending :
                unit.green_impurity_new[n + 1] =
                    PointLattice(n, unit.beta, unit.hyb[n + 1],
                                 unit.green_impurity[n + 1])
        /\ unit.pc = "done" =>
             /\ \A n \in 0..(Len(unit.hyb) - 1) :
                  unit.hyb_new[n + 1] =
                      PointUpdate(n, unit.beta, unit.hyb[n + 1],
                                  unit.green_impurity[n + 1])
             /\ LET r == run_selfconsistency(Model(t, unit.beta, U, 1), 2,
                                             <<unit.hyb, unit.green_impurity>>)
                IN  unit.hyb_new = r.heap[r.ret]

C9_Witness ==
    /\ unit.op = "anyorder" /\ unit.pc = "done"
    /\ Len(unit.hyb) = 2 /\ unit.order = <<1, 0>>
    /\ unit.hyb[1] # unit.hyb[2]
    /\ unit.self_energy[1] # unit.self_energy[2]
    /\ \A k \in 1..2 : IsFinite(unit.hyb_new[k])
    /\ unit.hyb_new[1] # unit.hyb_new[2]

\* The denominators of the pass that has just ended, at index k (1-based):
\* of line 206, of line 245 and of line 270.
SolveDenominator(k) ==
    CSub(CSub(Iwn(k - 1, beta), heap[models[sc_locals.model].hyb][k]),
         Cx(RDiv(U, 2)))

DividedByZero(k) ==
    \/ SolveDenominator(k) = CZero
    \/ heap[sc_locals.green_impurity][k] = CZero
    \/ sc_locals.green_impurity_new[k] = CZero

NonFiniteSeen(k) == \E i \in DOMAIN hist : ~IsFinite(hist[i][k])

\* C11: a complex division by zero at index n (line 206, 245 or 270) leaves
\* a non-finite value at n and raises nothing: the loop goes on to the end
\* of its iter_max passes and main() returns, and from that pass on the
\* hybridization at n is non-finite after every pass and in the output.
C11_SingularityPropagated ==
    /\ [](pc \in {"ITERATING", "DONE"})
    /\ [](\A k \in 1..n_freq :
            /\ (step = "sc" /\ CSub(CSub(Iwn(k - 1, beta), heap[hyb][k]),
                                    Cx(RDiv(U, 2))) = CZero)
                 => ~IsFinite(heap[green_impurity][k])
            /\ (step = "model" /\ counts.sc > 0 /\ DividedByZero(k))
                 => ~IsFinite(heap[hyb][k])
            /\ \A i, j \in DOMAIN hist :
                 (i < j /\ ~IsFinite(hist[i][k])) => ~IsFinite(hist[j][k])
            /\ (pc = "DONE" /\ NonFiniteSeen(k))
                 => ~IsFinite(heap[ret.hyb][k]))
    /\ [](pc = "DONE" => ret.returned /\ AllCounts(iter_max))
    /\ (\E k \in 1..n_freq : NonFiniteSeen(k)) ~> (pc = "DONE")

\* Two passes from a hybridization that is finite everywhere and sits on the
\* pole at index 0 only: the output is non-finite at 0 and finite at 1.
C11_Witness ==
    /\ pc = "DONE" /\ ret.returned /\ iter_max = MaxIter /\ n_freq = 2
    /\ AllCounts(MaxIter)
    /\ hist[1][1] = Pole(0, beta, U) /\ IsFinite(hist[1][1])
    /\ IsFinite(hist[1][2])
    /\ \A i \in 2..Len(hist) : ~IsFinite(hist[i][1])
    /\ ~IsFinite(heap[ret.hyb][1]) /\ IsFinite(heap[ret.hyb][2])

\* C12: an integrator call that raises inside run_selfconsistency, at any
\* index of any pass, ends the run: the exception leaves main(), which
\* returns nothing, the pass is not completed and the hybridization of the
\* pass before stays the last one, and after the raise nothing is executed
\* any more, no integrator call, no retry and no further pass.
C12_QuadratureAborts ==
    /\ [](unit.op = "IntegrationError" =>
            /\ pc = "RAISED"
            /\ ret = NoRet
            /\ ii = unit.ii
            /\ counts.model = unit.ii + 1 /\ counts.solve = unit.ii + 1
            /\ counts.sc = unit.ii
            /\ counts.quad = 2 * n_freq * unit.ii + 2 * unit.n + unit.part
            /\ Len(hist) = unit.ii + 1)
    /\ [][pc # "RAISED" /\ unit.op # "IntegrationError"]_vars

\* The imaginary-part call at index 1 of the second pass raises.
C12_Witness ==
    /\ pc = "RAISED" /\ unit.op = "IntegrationError"
    /\ unit.ii = 1 /\ unit.n = 1 /\ unit.part = 2
    /\ iter_max = MaxIter /\ n_freq = 2
    /\ counts.quad = 2 * n_freq + 4
    /\ ~ret.returned
    /\ Len(hist) = 2 /\ heap[hyb] = hist[2]

\* A configuration outside n_freq > 0, beta > 0, iter_max > 0 (of the
\* values beta <= 0 the field has only 0).
InvalidConfig == n_freq <= 0 \/ beta = R(0) \/ iter_max <= 0

\* C13: with an invalid configuration main() builds no Model, runs no
\* solve, calls no integrator and returns no output.
C13_FailsFast ==
    InvalidConfig =>
        /\ counts.model = 0 /\ counts.solve = 0 /\ counts.sc = 0
        /\ counts.quad = 0
        /\ ~ret.returned

\* C14: eps_k and Model.eps_k are invariant under (kx, ky) -> (-kx, -ky)
\* and under (kx, ky) -> (ky, kx), and return the same value at the same
\* point.
C14_DispersionSymmetric ==
    unit.op = "eps_k" =>
        /\ unit.free # <<>> =>
             /\ unit.free[1] = unit.free[2]
             /\ unit.free[1] = unit.free[3]
        /\ unit.method # <<>> =>
             /\ unit.method[1] = unit.method[2]
             /\ unit.method[1] = unit.method[3]
        /\ (unit.free # <<>> /\ unit.method # <<>>) =>
             unit.free[1] = unit.method[1]

\* Both functions called at (pi/2, pi), where cos kx # cos ky.
C14_Witness ==
    /\ unit.op = "eps_k" /\ unit.kx = 1 /\ unit.ky = 2
    /\ unit.free = <<R(2), R(2), R(2)>>
    /\ unit.method = unit.free

\* C15: in every pass of main(), the first and the later ones, solve and
\* run_selfconsistency work on the same Model, and the self-energy that
\* run_selfconsistency extracts is U/2 at every index n at which
\* iwn - hyb[n] - U/2 is not zero.
C15_HartreeEveryPass ==
    counts.sc > 0 =>
        LET m == models[sc_locals.model]
        IN  /\ step = "model" =>
                 /\ impurity_solver.model = sc_locals.model
                 /\ selfconsistency.model = sc_locals.model
            /\ Len(sc_locals.self_energy) = n_freq
            /\ \A k \in 1..n_freq :
                 LET den == CSub(CSub(Iwn(k - 1, m.beta), heap[m.hyb][k]),
                                 Cx(RDiv(m.U, 2)))
                 IN  (IsFinite(den) /\ den # CZero) =>
                         sc_locals.self_energy[k] = Cx(RDiv(m.U, 2))

\* The second pass, which reads a hybridization that is not the initial 0.
C15_Witness ==
    /\ counts.sc = 2 /\ n_freq = 2 /\ U = R(4)
    /\ heap[models[sc_locals.model].hyb] # Zeros(n_freq)
    /\ \A k \in 1..n_freq : IsFinite(heap[models[sc_locals.model].hyb][k])
    /\ sc_locals.self_energy = <<Cx(R(2)), Cx(R(2))>>

\* C16: the hopping t is stored in every Model and read by nothing: a call
\* of main() that differs from the call before only in t records the same
\* hybridization after every pass and returns the same frequencies and the
\* same hybridization.
C16_HoppingIrrelevant ==
    /\ \A i \in (Len(models) - counts.model + 1)..Len(models) :
         models[i].t = t
    /\ unit.op = "hopping" =>
         /\ t # unit.t
         /\ Len(hist) <= Len(prev.hist)
         /\ \A i \in DOMAIN hist : hist[i] = prev.hist[i]
         /\ pc = "DONE" =>
              /\ hist = prev.hist
              /\ heap[ret.hyb] = prev.hyb
              /\ ret.frequencies = prev.frequencies

\* Two full calls, the first with t = -1 and the second with t = 2.
C16_Witness ==
    /\ unit.op = "hopping" /\ unit.t = R(-1) /\ t = R(2)
    /\ run = 2 /\ pc = "DONE" /\ iter_max = MaxIter /\ n_freq = 2
    /\ models[1].t = R(-1) /\ models[model].t = R(2)
    /\ hist = prev.hist /\ hist[iter_max + 1] # hist[1]
    /\ heap[ret.hyb] = prev.hyb /\ ret.frequencies = prev.frequencies

=============================================================================
